---- MODULE Spec2Model ----
(***************************************************************************)
(* Model of src/src/mssql/server.py: the read-only SQL gateway.            *)
(*   - SQLValidator.is_read_only_query  (the query guard, a pure function) *)
(*   - DBConfig.get_connection          (the single lazily held connection)*)
(*   - list_resources, read_resource, call_tool (the protocol handlers)    *)
(* Strings whose characters matter (queries, URIs) are sequences of        *)
(* one-character strings.  The handlers are coroutines without any await,  *)
(* so each runs to completion as one action.                               *)
(***************************************************************************)
EXTENDS Integers, Sequences, FiniteSets, TLC

VARIABLES
    connection,  \* db.connection: None or the held session
    sessions,    \* number of sessions the backend has opened so far
    request,     \* the request served last
    response,    \* what the handler returned or raised
    ops,         \* guard and backend operations performed while serving it
    gquery,      \* guard harness: the query text under classification
    gverdict,    \* guard harness: whether the guard answered, and its answer
    env,         \* os.environ: the MSSQL_* variables that are set
    config,      \* db.config, once DBConfig() has run
    pc,          \* "boot" before the module body ran, then "serving" or "crashed"
    logged,      \* records logged by the module body and by get_connection
                 \* during the last step
    tasks,       \* handler coroutines dispatched by the protocol server
    running      \* the coroutine that has the event loop, or NoTask

vars == <<connection, sessions, request, response, ops, gquery, gverdict,
          env, config, pc, logged, tasks, running>>

concVars == <<tasks, running>>

guardVars == <<gquery, gverdict>>
bootVars == <<env, config, pc>>

----------------------------------------------------------------------------
(* Bounds *)

MaxFrags == 4       \* a query text is at most this many fragments long
MaxSessions == 2    \* sessions the backend opens in one behaviour
MaxRows == 4        \* rows a result set holds (above the display cap)
MaxTables == 2      \* base tables the schema query lists
MaxTasks == 2       \* requests the protocol server has dispatched at once

----------------------------------------------------------------------------
(* Strings *)

Range(s) == {s[i] : i \in 1..Len(s)}

\* str.upper(), on the characters the model uses
UpperMap ==
    [c \in {"a","c","d","e","h","i","l","m","o","p","q","r","s","t","w","x"} |->
        CASE c = "a" -> "A" [] c = "c" -> "C" [] c = "d" -> "D"
          [] c = "e" -> "E" [] c = "h" -> "H" [] c = "i" -> "I"
          [] c = "l" -> "L" [] c = "m" -> "M" [] c = "o" -> "O"
          [] c = "p" -> "P" [] c = "q" -> "Q" [] c = "r" -> "R"
          [] c = "s" -> "S" [] c = "t" -> "T" [] c = "w" -> "W"
          [] c = "x" -> "X"]

UpperChar(c) == IF c \in DOMAIN UpperMap THEN UpperMap[c] ELSE c

upper(s) == [i \in 1..Len(s) |-> UpperChar(s[i])]

\* the characters str.strip() removes
Whitespace == {" ", "\t"}

RECURSIVE lstrip(_)
lstrip(s) ==
    IF s # <<>> /\ Head(s) \in Whitespace THEN lstrip(Tail(s)) ELSE s

RECURSIVE rstrip(_)
rstrip(s) ==
    IF s # <<>> /\ s[Len(s)] \in Whitespace
    THEN rstrip(SubSeq(s, 1, Len(s) - 1)) ELSE s

strip(s) == rstrip(lstrip(s))

startswith(s, prefix) ==
    /\ Len(s) >= Len(prefix)
    /\ SubSeq(s, 1, Len(prefix)) = prefix

----------------------------------------------------------------------------
(* SQLValidator *)

K_SELECT == <<"S","E","L","E","C","T">>

\* a guard that looks for SELECT anywhere in the text
is_read_only_query_anywhere(query) ==
    \E i \in 1..Len(query) :
        startswith(SubSeq(upper(strip(query)), i, Len(strip(query))), K_SELECT)

\* a guard that compares without trimming or upper-casing
is_read_only_query_raw(query) == startswith(query, K_SELECT)

\* a guard with the allow-list SELECT, WITH, DECLARE
is_read_only_query_allowlist(query) ==
    \/ startswith(upper(strip(query)), K_SELECT)
    \/ startswith(upper(strip(query)), <<"W","I","T","H">>)
    \/ startswith(upper(strip(query)), <<"D","E","C","L","A","R","E">>)

is_read_only_query(query) == startswith(upper(strip(query)), K_SELECT)

----------------------------------------------------------------------------
(* Query texts the guard is exercised on *)

Fragments ==
    { <<" ">>, <<"\t">>, <<"1">>, <<";">>,
      <<"S","E","L","E","C","T">>,
      <<"s","e","L","e","c","t">>,
      <<"W","I","T","H">>,
      <<"d","e","c","l","a","r","e">>,
      <<"D","R","O","P">> }

RECURSIVE TextsOfLen(_)
TextsOfLen(n) ==
    IF n = 0 THEN { <<>> }
    ELSE { f \o t : f \in Fragments, t \in TextsOfLen(n - 1) }

\* the query texts of at most n fragments
Queries(n) == UNION { TextsOfLen(k) : k \in 0..n }

----------------------------------------------------------------------------
(* Values shared by the handlers *)

None == 0                  \* self.connection = None

DisplayCap == 3            \* rows[:3], row_count > 3

\* str(int), for the integers the model renders
DecStr(n) == <<"0","1","2","3","4","5","6","7","8","9">>[n + 1]

\* sep.join(parts)
RECURSIVE join(_, _)
join(parts, sep) ==
    IF parts = <<>> THEN <<>>
    ELSE IF Len(parts) = 1 THEN parts
    ELSE <<Head(parts), sep>> \o join(Tail(parts), sep)

\* messages of the exceptions the backend and the interpreter raise
MsgConnect == "connect failed"
MsgExecute == "execute failed"
MsgFetch == "fetch failed"
MsgNoneType == "'NoneType' object is not iterable"

Resp(kind, exc, text, rows, resources, conn) ==
    [kind |-> kind, exc |-> exc, text |-> text, rows |-> rows,
     resources |-> resources, conn |-> conn]

NoResponse == Resp("none", "", <<>>, <<>>, <<>>, None)

----------------------------------------------------------------------------
(* What the backend does during one request: the outcome of the liveness   *)
(* probe, of pyodbc.connect, and of the statement the handler runs.        *)

Outcome(execute, has_description, columns, fetch, rows, build) ==
    [execute |-> execute, has_description |-> has_description,
     columns |-> columns, fetch |-> fetch, rows |-> rows, build |-> build]

NoOutcome == Outcome(FALSE, FALSE, <<>>, FALSE, <<>>, FALSE)

Backend(probeOk, connectOk, out) ==
    [probeOk |-> probeOk, connectOk |-> connectOk, out |-> out]

NoBackend == Backend(TRUE, TRUE, NoOutcome)

\* pyodbc.connect can succeed only while the model's session budget lasts
ConnectOutcomes(sess) == IF sess < MaxSessions THEN BOOLEAN ELSE {FALSE}

RECURSIVE SeqsUpTo(_, _)
SeqsUpTo(S, n) ==
    IF n = 0 THEN { <<>> }
    ELSE SeqsUpTo(S, n - 1) \cup
         { <<x>> \o t : x \in S, t \in { u \in SeqsUpTo(S, n - 1) : Len(u) = n - 1 } }

Columns == <<"id">>

\* result sets of up to maxRows rows of one integer column, the rows all
\* different, in ascending or in descending order
RowSeqs(maxRows) ==
    { [i \in 1..n |-> <<i>>] : n \in 0..maxRows } \cup
    { [i \in 1..n |-> <<n + 1 - i>>] : n \in 0..maxRows }

\* outcomes of a data query: rows of one integer column
DataOutcomes(maxRows) ==
    { Outcome(FALSE, FALSE, <<>>, FALSE, <<>>, TRUE),        \* execute raises
      Outcome(TRUE, FALSE, <<>>, FALSE, <<>>, TRUE),         \* description is None
      Outcome(TRUE, TRUE, Columns, FALSE, <<>>, TRUE) }      \* fetchall raises
    \cup { Outcome(TRUE, TRUE, Columns, TRUE, rows, TRUE) :
             rows \in RowSeqs(maxRows) }

\* outcomes of the schema query: rows of one table name; build says whether
\* constructing the Resource objects succeeds
SchemaOutcomes ==
    { Outcome(FALSE, FALSE, <<>>, FALSE, <<>>, TRUE),
      Outcome(TRUE, TRUE, <<"TABLE_NAME">>, FALSE, <<>>, TRUE) }
    \cup { Outcome(TRUE, TRUE, <<"TABLE_NAME">>, TRUE, rows, build) :
             rows \in SeqsUpTo({ <<"t">>, <<"u">> }, MaxTables),
             build \in BOOLEAN }

----------------------------------------------------------------------------
(* DBConfig.get_connection *)

\* one backend operation and the statement text it carries
Op(kind, sql) == [op |-> kind, sql |-> sql]

\* literal statements, never inspected: kept as one piece
ProbeSql == <<"SELECT 1">>
SchemaSql ==
    <<"SELECT TABLE_NAME FROM INFORMATION_SCHEMA.TABLES WHERE TABLE_TYPE = 'BASE TABLE'">>

OpProbe == Op("probe", ProbeSql)
OpConnect == Op("connect", <<>>)

Kinds(log) == [i \in 1..Len(log) |-> log[i].op]

Count(log, kind) == Cardinality({ i \in 1..Len(log) : log[i].op = kind })

Acquired(conn, sess, raised, msg, ret, log) ==
    [connection |-> conn, sessions |-> sess, raised |-> raised, msg |-> msg,
     ret |-> ret, ops |-> log]

\* an acquire that retries a failed connect once more
get_connection_retrying(conn, sess, probeOk, connectOk) ==
    LET probed == IF conn # None THEN <<OpProbe>> ELSE <<>>
        held == IF conn # None /\ ~probeOk THEN None ELSE conn
    IN  IF held # None
        THEN Acquired(held, sess, FALSE, "", held, probed)
        ELSE IF connectOk
        THEN Acquired(sess + 1, sess + 1, FALSE, "", sess + 1,
                      probed \o <<OpConnect>>)
        ELSE Acquired(None, sess, TRUE, MsgConnect, None,
                      probed \o <<OpConnect, OpConnect>>)

\* an acquire that reconnects even when the probe succeeded
get_connection_eager(conn, sess, probeOk, connectOk) ==
    LET probed == IF conn # None THEN <<OpProbe>> ELSE <<>>
    IN  IF connectOk
        THEN Acquired(sess + 1, sess + 1, FALSE, "", sess + 1,
                      probed \o <<OpConnect>>)
        ELSE Acquired(None, sess, TRUE, MsgConnect, None,
                      probed \o <<OpConnect>>)

\* an acquire that hands out the held connection although its probe failed
get_connection_stale(conn, sess, probeOk, connectOk) ==
    LET probed == IF conn # None THEN <<OpProbe>> ELSE <<>>
    IN  IF conn # None
        THEN Acquired(conn, sess, FALSE, "", conn, probed)
        ELSE IF connectOk
        THEN Acquired(sess + 1, sess + 1, FALSE, "", sess + 1,
                      probed \o <<OpConnect>>)
        ELSE Acquired(None, sess, TRUE, MsgConnect, None,
                      probed \o <<OpConnect>>)

\* an acquire that keeps the dead connection when the reconnect fails
get_connection_keeps_dead(conn, sess, probeOk, connectOk) ==
    LET probed == IF conn # None THEN <<OpProbe>> ELSE <<>>
        held == IF conn # None /\ ~probeOk THEN None ELSE conn
    IN  IF held # None
        THEN Acquired(held, sess, FALSE, "", held, probed)
        ELSE IF connectOk
        THEN Acquired(sess + 1, sess + 1, FALSE, "", sess + 1,
                      probed \o <<OpConnect>>)
        ELSE Acquired(conn, sess, TRUE, MsgConnect, None,
                      probed \o <<OpConnect>>)

get_connection(conn, sess, probeOk, connectOk) ==
    LET \* if self.connection: probe it; a failing probe drops it
        probed == IF conn # None THEN <<OpProbe>> ELSE <<>>
        held == IF conn # None /\ ~probeOk THEN None ELSE conn
    IN  IF held # None
        THEN Acquired(held, sess, FALSE, "", held, probed)
        ELSE \* if not self.connection: one pyodbc.connect
             IF connectOk
        THEN Acquired(sess + 1, sess + 1, FALSE, "", sess + 1,
                      probed \o <<OpConnect>>)
        ELSE \* except: self.connection = None; raise
             Acquired(None, sess, TRUE, MsgConnect, None,
                      probed \o <<OpConnect>>)

----------------------------------------------------------------------------
(* Configuration and logging.  Environment values, and every logged text,  *)
(* are sequences of characters; a literal of the source is one piece.      *)

LogRecord(level, text) == [level |-> level, text |-> text]

\* os.environ.get(key, default)
environ_get(e, key, default) == IF key \in DOMAIN e THEN e[key] ELSE default

EnvKeys == <<"MSSQL_SERVER", "MSSQL_DATABASE", "MSSQL_USER", "MSSQL_PASSWORD">>

\* str(dict(os.environ))
RECURSIVE environ_text(_, _)
environ_text(e, keys) ==
    IF keys = <<>> THEN <<>>
    ELSE (IF Head(keys) \in DOMAIN e
          THEN <<Head(keys), ": ">> \o e[Head(keys)] \o <<", ">>
          ELSE <<>>) \o environ_text(e, Tail(keys))

\* s.split(",")
RECURSIVE split_comma(_)
split_comma(s) ==
    IF \A i \in 1..Len(s) : s[i] # "," THEN <<s>>
    ELSE LET i == CHOOSE k \in 1..Len(s) :
                    s[k] = "," /\ \A j \in 1..(k - 1) : s[j] # ","
         IN  <<SubSeq(s, 1, i - 1)>> \o split_comma(SubSeq(s, i + 1, Len(s)))

\* s.replace(old, new)
RECURSIVE replace(_, _, _)
replace(s, old, new) ==
    IF s = <<>> THEN (IF old = <<>> THEN new ELSE <<>>)
    ELSE IF old = <<>> THEN new \o <<Head(s)>> \o replace(Tail(s), old, new)
    ELSE IF startswith(s, old)
    THEN new \o replace(SubSeq(s, Len(old) + 1, Len(s)), old, new)
    ELSE <<Head(s)>> \o replace(Tail(s), old, new)

DefaultPort == <<"1","4","3","3">>
DefaultDriver == <<"{ODBC Driver 18 for SQL Server}">>

Config(server, port, database, user, password, driver) ==
    [server |-> server, port |-> port, database |-> database, user |-> user,
     password |-> password, driver |-> driver]

NoConfig == Config(<<>>, <<>>, <<>>, <<>>, <<>>, <<>>)

Constructed(raised, cfg, records) ==
    [raised |-> raised, config |-> cfg, log |-> records]

\* DBConfig.__init__: os.environ.get("MSSQL_SERVER") has no default, and
\* `"," in None` raises TypeError
DBConfig_init(e) ==
    IF "MSSQL_SERVER" \notin DOMAIN e
    THEN Constructed(TRUE, NoConfig, <<>>)
    ELSE LET server == e["MSSQL_SERVER"]
             parts == split_comma(server)
             cfg == Config(parts[1],
                           IF Len(parts) > 1 THEN parts[2] ELSE DefaultPort,
                           environ_get(e, "MSSQL_DATABASE", <<>>),
                           environ_get(e, "MSSQL_USER", <<>>),
                           environ_get(e, "MSSQL_PASSWORD", <<>>),
                           DefaultDriver)
         IN  Constructed(FALSE, cfg,
                 <<LogRecord("INFO", <<"Using database: ">> \o cfg.database \o
                             <<" on server: ">> \o cfg.server \o <<":">> \o cfg.port)>>)

Started(state, cfg, records) == [pc |-> state, config |-> cfg, log |-> records]

\* the module body: logger.info(f"Received env: {dict(os.environ)}"), then
\* db = DBConfig()
startup(e) ==
    LET received == LogRecord("INFO", <<"Received env: ">> \o environ_text(e, EnvKeys))
        c == DBConfig_init(e)
    IN  IF c.raised THEN Started("crashed", NoConfig, <<received>>)
        ELSE Started("serving", c.config, <<received>> \o c.log)

\* conn_str of get_connection
conn_str(cfg) ==
    <<"DRIVER=">> \o cfg.driver \o <<";SERVER=">> \o cfg.server \o <<",">> \o
    cfg.port \o <<";DATABASE=">> \o cfg.database \o <<";UID=">> \o cfg.user \o
    <<";PWD=">> \o cfg.password \o
    <<";Encrypt=yes;TrustServerCertificate=yes;Connection Timeout=30;ConnectRetryCount=3;ConnectRetryInterval=10">>

Stars == <<"*","*","*">>

\* the records get_connection logs, in order
get_connection_log(conn, probeOk, connectOk, cfg) ==
    LET lost == IF conn # None /\ ~probeOk
                THEN <<LogRecord("INFO", <<"Connection lost, reconnecting...">>)>>
                ELSE <<>>
        attempt == LogRecord("INFO", <<"Attempting to connect with: ">> \o
                                     replace(conn_str(cfg), cfg.password, Stars))
    IN  IF conn # None /\ probeOk THEN <<>>
        ELSE IF connectOk
        THEN lost \o <<attempt, LogRecord("INFO", <<"Database connection successful">>)>>
        ELSE lost \o <<attempt, LogRecord("ERROR", <<"Database connection failed: ", MsgConnect>>)>>

----------------------------------------------------------------------------
(* Running one statement on a cursor of the acquired connection:           *)
(* cursor.execute(sql), [desc[0] for desc in cursor.description],          *)
(* cursor.fetchall()                                                       *)

Ran(raised, msg, columns, rows, log) ==
    [raised |-> raised, msg |-> msg, columns |-> columns, rows |-> rows,
     ops |-> log]

run(sql, out) ==
    IF ~out.execute
    THEN Ran(TRUE, MsgExecute, <<>>, <<>>, <<Op("execute", sql)>>)
    ELSE IF ~out.has_description
    THEN Ran(TRUE, MsgNoneType, <<>>, <<>>, <<Op("execute", sql)>>)
    ELSE IF ~out.fetch
    THEN Ran(TRUE, MsgFetch, <<>>, <<>>, <<Op("execute", sql), Op("fetch", <<>>)>>)
    ELSE Ran(FALSE, "", out.columns, out.rows,
             <<Op("execute", sql), Op("fetch", <<>>)>>)

Handled(conn, sess, resp, log) ==
    [connection |-> conn, sessions |-> sess, response |-> resp, ops |-> log]

----------------------------------------------------------------------------
(* list_resources *)

Resource(table) ==
    [uri |-> <<"mssql://", table[1], "/data">>,
     name |-> <<"Table: ", table[1]>>,
     mimeType |-> "application/json",
     description |-> <<"Data in table ", table[1]>>]

\* a listing that lets a failed acquire escape
list_resources_leaky(conn, sess, b) ==
    LET a == get_connection(conn, sess, b.probeOk, b.connectOk)
    IN  IF a.raised
        THEN Handled(a.connection, a.sessions,
                     Resp("raise", "Error", <<a.msg>>, <<>>, <<>>, None), a.ops)
        ELSE Handled(a.connection, a.sessions,
                     Resp("return", "", <<>>, <<>>,
                          [i \in 1..Len(b.out.rows) |-> Resource(b.out.rows[i])],
                          None),
                     a.ops)

list_resources(conn, sess, b) ==
    LET a == get_connection(conn, sess, b.probeOk, b.connectOk)
        f == run(SchemaSql, b.out)
        empty == Resp("return", "", <<>>, <<>>, <<>>, None)
    IN  IF a.raised
        THEN Handled(a.connection, a.sessions, empty, a.ops)
        ELSE IF f.raised \/ ~b.out.build
        THEN Handled(a.connection, a.sessions, empty, a.ops \o f.ops)
        ELSE Handled(a.connection, a.sessions,
                     Resp("return", "", <<>>, <<>>,
                          [i \in 1..Len(f.rows) |-> Resource(f.rows[i])], None),
                     a.ops \o f.ops)

----------------------------------------------------------------------------
(* read_resource *)

UriPrefix == <<"m","s","s","q","l",":","/","/">>

SelectTop == <<"S","E","L","E","C","T"," ","T","O","P"," ","1","0","0"," ",
               "*"," ","F","R","O","M"," ">>

\* s.split('/')[0]
RECURSIVE first_segment(_)
first_segment(s) ==
    IF s = <<>> \/ Head(s) = "/" THEN <<>>
    ELSE <<Head(s)>> \o first_segment(Tail(s))

\* str(value) of one cell, and one delimited line per row
Line(row) == join([i \in 1..Len(row) |-> DecStr(row[i])], ",")

\* "\n".join(lines), each line already a sequence of pieces
RECURSIVE join_lines(_)
join_lines(lines) ==
    IF Len(lines) = 0 THEN <<>>
    ELSE IF Len(lines) = 1 THEN lines[1]
    ELSE lines[1] \o <<"\n">> \o join_lines(Tail(lines))

\* a reader that answers failures with a text payload
read_resource_textual(conn, sess, uri, b) ==
    LET a == get_connection(conn, sess, b.probeOk, b.connectOk)
    IN  IF ~startswith(uri, UriPrefix)
        THEN Handled(conn, sess,
                     Resp("return", "", <<"Error: ", "Invalid URI scheme">>,
                          <<>>, <<>>, None), <<>>)
        ELSE Handled(a.connection, a.sessions,
                     Resp("return", "", <<"Error: ", a.msg>>, <<>>, <<>>, None),
                     a.ops)

read_resource(conn, sess, uri, b) ==
    LET table == first_segment(SubSeq(uri, Len(UriPrefix) + 1, Len(uri)))
        query == SelectTop \o table
        a == get_connection(conn, sess, b.probeOk, b.connectOk)
        f == run(query, b.out)
        guard == <<Op("guard", query)>>
    IN  IF ~startswith(uri, UriPrefix)
        THEN Handled(conn, sess,
                     Resp("raise", "ValueError", <<"Invalid URI scheme: ">> \o uri,
                          <<>>, <<>>, None), <<>>)
        ELSE IF ~is_read_only_query(query)
        THEN Handled(conn, sess,
                     Resp("raise", "ValueError",
                          <<"Only SELECT queries are allowed">>,
                          <<>>, <<>>, None), guard)
        ELSE IF a.raised
        THEN Handled(a.connection, a.sessions,
                     Resp("raise", "RuntimeError", <<"Database error: ", a.msg>>,
                          <<>>, <<>>, None), guard \o a.ops)
        ELSE IF f.raised
        THEN Handled(a.connection, a.sessions,
                     Resp("raise", "RuntimeError", <<"Database error: ", f.msg>>,
                          <<>>, <<>>, None), guard \o a.ops \o f.ops)
        ELSE Handled(a.connection, a.sessions,
                     Resp("return", "",
                          join_lines(<<join(f.columns, ",")>> \o
                                     [i \in 1..Len(f.rows) |-> Line(f.rows[i])]),
                          <<>>, <<>>, None),
                     a.ops \o f.ops)

----------------------------------------------------------------------------
(* call_tool *)

Arguments(present, query) == [present |-> present, query |-> query]

\* arguments.get("query") is None or ""
not_query(arguments) == ~arguments.present \/ arguments.query = <<>>

\* row_dict[col] = str(row[i]) for i, col in enumerate(columns)
row_dict(columns, row) ==
    [col \in Range(columns) |->
        DecStr(row[CHOOSE i \in 1..Len(columns) :
                     /\ columns[i] = col
                     /\ \A j \in 1..Len(columns) : columns[j] = col => j <= i])]

\* rows[:n]
first_rows(rows, n) == SubSeq(rows, 1, IF Len(rows) < n THEN Len(rows) ELSE n)

\* a summary that announces truncation from the cap on
summary_off_by_one(rows) ==
    [text |-> <<"Query returned ", DecStr(Len(rows)), " rows. ">> \o
              (IF Len(rows) >= DisplayCap THEN <<"Showing first 3 rows:">> ELSE <<>>),
     display_rows |-> first_rows(rows, DisplayCap)]

summary(rows) ==
    [text |-> <<"Query returned ", DecStr(Len(rows)), " rows. ">> \o
              (IF Len(rows) > DisplayCap THEN <<"Showing first 3 rows:">> ELSE <<>>),
     display_rows |-> first_rows(rows, DisplayCap)]

\* a tool call that lets backend failures escape
call_tool_raising(conn, sess, name, arguments, b) ==
    LET a == get_connection(conn, sess, b.probeOk, b.connectOk)
    IN  Handled(a.connection, a.sessions,
                Resp("raise", "Error", <<a.msg>>, <<>>, <<>>, None), a.ops)

\* a tool call that consults the guard before checking its arguments
call_tool_unchecked(conn, sess, name, arguments, b) ==
    Handled(conn, sess,
            Resp("return", "", <<"Error: ", "Only SELECT queries are allowed">>,
                 <<>>, <<>>, None), <<Op("guard", arguments.query)>>)

\* a tool call that executes the normalized copy of the text
call_tool_normalized(conn, sess, name, arguments, b) ==
    LET query == arguments.query
        a == get_connection(conn, sess, b.probeOk, b.connectOk)
        f == run(upper(strip(query)), b.out)
        s == summary(f.rows)
        guard == <<Op("guard", query)>>
    IN  IF name # "execute_sql"
        THEN Handled(conn, sess,
                     Resp("raise", "ValueError", <<"Unknown tool: ", name>>,
                          <<>>, <<>>, None), <<>>)
        ELSE IF not_query(arguments)
        THEN Handled(conn, sess,
                     Resp("raise", "ValueError", <<"Query is required">>,
                          <<>>, <<>>, None), <<>>)
        ELSE IF ~is_read_only_query(query)
        THEN Handled(conn, sess,
                     Resp("return", "",
                          <<"Error: ", "Only SELECT queries are allowed">>,
                          <<>>, <<>>, None), guard)
        ELSE IF a.raised
        THEN Handled(a.connection, a.sessions,
                     Resp("return", "", <<"Error: ", a.msg>>, <<>>, <<>>, None),
                     guard \o a.ops)
        ELSE IF f.raised
        THEN Handled(a.connection, a.sessions,
                     Resp("return", "", <<"Error: ", f.msg>>, <<>>, <<>>, None),
                     guard \o a.ops \o f.ops)
        ELSE Handled(a.connection, a.sessions,
                     Resp("return", "", s.text \o <<"\n\n">>,
                          [i \in 1..Len(s.display_rows) |->
                              row_dict(f.columns, s.display_rows[i])],
                          <<>>, None),
                     guard \o a.ops \o f.ops)

call_tool(conn, sess, name, arguments, b) ==
    LET query == arguments.query
        a == get_connection(conn, sess, b.probeOk, b.connectOk)
        f == run(query, b.out)
        s == summary(f.rows)
        guard == <<Op("guard", query)>>
    IN  IF name # "execute_sql"
        THEN Handled(conn, sess,
                     Resp("raise", "ValueError", <<"Unknown tool: ", name>>,
                          <<>>, <<>>, None), <<>>)
        ELSE IF not_query(arguments)
        THEN Handled(conn, sess,
                     Resp("raise", "ValueError", <<"Query is required">>,
                          <<>>, <<>>, None), <<>>)
        ELSE IF ~is_read_only_query(query)
        THEN Handled(conn, sess,
                     Resp("return", "",
                          <<"Error: ", "Only SELECT queries are allowed">>,
                          <<>>, <<>>, None), guard)
        ELSE IF a.raised
        THEN Handled(a.connection, a.sessions,
                     Resp("return", "", <<"Error: ", a.msg>>, <<>>, <<>>, None),
                     guard \o a.ops)
        ELSE IF f.raised
        THEN Handled(a.connection, a.sessions,
                     Resp("return", "", <<"Error: ", f.msg>>, <<>>, <<>>, None),
                     guard \o a.ops \o f.ops)
        ELSE Handled(a.connection, a.sessions,
                     Resp("return", "", s.text \o <<"\n\n">>,
                          [i \in 1..Len(s.display_rows) |->
                              row_dict(f.columns, s.display_rows[i])],
                          <<>>, None),
                     guard \o a.ops \o f.ops)

----------------------------------------------------------------------------
(* Inputs of the handlers *)

ToolNames == { "execute_sql", "drop_table" }

ToolQueries ==
    { <<"S","E","L","E","C","T"," ","1">>,
      <<" ","s","e","L","e","c","t"," ","1","\t">>,
      <<"S","E","L","E","C","T"," ","1",";"," ","D","R","O","P"," ","x">>,
      <<"D","R","O","P"," ","x">>,
      <<"W","I","T","H"," ","x">>,
      <<" ">> }

ToolArguments ==
    { Arguments(FALSE, <<>>), Arguments(TRUE, <<>>) } \cup
    { Arguments(TRUE, q) : q \in ToolQueries }

NoArguments == Arguments(FALSE, <<>>)

Uris ==
    { <<"m","s","s","q","l",":","/","/","t","/","d","a","t","a">>,
      <<"m","s","s","q","l",":","/","/","t">>,
      <<"m","s","s","q","l",":","/","/">>,
      <<"m","s","s","q","l",":","/","t">>,
      <<"h","t","t","p",":","/","/","t">>,
      <<>> }

MaxPreviewRows == 2  \* rows a table preview returns in the model

\* One input per behaviour of the backend: an outcome that the request never
\* consults (the probe when nothing is held, the connect when the probe
\* succeeds, the statement when the acquire fails) is fixed.
Backends(conn, sess, outs) ==
    LET probes == IF conn = None THEN {TRUE} ELSE BOOLEAN
        connects(p) == IF conn # None /\ p THEN {TRUE} ELSE ConnectOutcomes(sess)
        statements(c) == IF c THEN outs ELSE {NoOutcome}
    IN  UNION { UNION { { Backend(p, c, o) : o \in statements(c) } :
                        c \in connects(p) } :
                p \in probes }

Req(handler, name, arguments, uri, b) ==
    [handler |-> handler, name |-> name, arguments |-> arguments, uri |-> uri,
     backend |-> b]

NoRequest == Req("none", "", NoArguments, <<>>, NoBackend)

Pending == [done |-> FALSE, value |-> FALSE]

----------------------------------------------------------------------------
(* The server: db = DBConfig() holds no connection; requests arrive one at *)
(* a time and each handler runs to completion.                             *)

NoTask == 0

Task(handler, at, conn) == [handler |-> handler, pc |-> at, conn |-> conn]

IdleTask == Task("none", "idle", None)

\* the environment of a fully configured deployment
DefaultEnv ==
    [k \in {"MSSQL_SERVER", "MSSQL_DATABASE", "MSSQL_USER", "MSSQL_PASSWORD"} |->
        CASE k = "MSSQL_SERVER" -> <<"h">>
          [] k = "MSSQL_DATABASE" -> <<"d","b">>
          [] k = "MSSQL_USER" -> <<"s","a">>
          [] k = "MSSQL_PASSWORD" -> <<"p","w">>]

Init ==
    /\ connection = None
    /\ sessions = 0
    /\ request = NoRequest
    /\ response = NoResponse
    /\ ops = <<>>
    /\ gquery = <<>>
    /\ gverdict = Pending
    /\ env = DefaultEnv
    /\ config = startup(DefaultEnv).config
    /\ pc = startup(DefaultEnv).pc
    /\ logged = startup(DefaultEnv).log
    /\ tasks = [t \in 1..MaxTasks |-> IdleTask]
    /\ running = NoTask

Serve(req, h) ==
    /\ pc = "serving"
    /\ connection' = h.connection
    /\ sessions' = h.sessions
    /\ request' = req
    /\ response' = h.response
    /\ ops' = h.ops
    /\ logged' = IF Count(h.ops, "probe") + Count(h.ops, "connect") > 0
                 THEN get_connection_log(connection, req.backend.probeOk,
                                         req.backend.connectOk, config)
                 ELSE <<>>
    /\ UNCHANGED <<guardVars, bootVars, concVars>>

\* a direct db.get_connection()
GetConnection ==
    \E b \in Backends(connection, sessions, {NoOutcome}) :
        LET a == get_connection(connection, sessions, b.probeOk, b.connectOk)
        IN  Serve(Req("get_connection", "", NoArguments, <<>>, b),
                  Handled(a.connection, a.sessions,
                          IF a.raised
                          THEN Resp("raise", "Error", <<a.msg>>, <<>>, <<>>, None)
                          ELSE Resp("return", "", <<>>, <<>>, <<>>, a.ret),
                          a.ops))

ListResources ==
    \E b \in Backends(connection, sessions, SchemaOutcomes) :
        Serve(Req("list_resources", "", NoArguments, <<>>, b),
              list_resources(connection, sessions, b))

ReadResource ==
    \E uri \in Uris :
        \E b \in (IF startswith(uri, UriPrefix)
                  THEN Backends(connection, sessions, DataOutcomes(MaxPreviewRows))
                  ELSE {NoBackend}) :
            Serve(Req("read_resource", "", NoArguments, uri, b),
                  read_resource(connection, sessions, uri, b))

CallTool ==
    \E name \in ToolNames, arguments \in ToolArguments :
        \E b \in (IF /\ name = "execute_sql"
                     /\ ~not_query(arguments)
                     /\ is_read_only_query(arguments.query)
                  THEN Backends(connection, sessions, DataOutcomes(MaxRows))
                  ELSE {NoBackend}) :
            Serve(Req("call_tool", name, arguments, <<>>, b),
                  call_tool(connection, sessions, name, arguments, b))

Next == GetConnection \/ ListResources \/ ReadResource \/ CallTool

Spec == Init /\ [][Next]_vars

----------------------------------------------------------------------------
(* The process from its start: any environment, the module body, then      *)
(* acquires of the connection.                                             *)

EnvValues ==
    [k \in {"MSSQL_SERVER", "MSSQL_DATABASE", "MSSQL_USER", "MSSQL_PASSWORD"} |->
        CASE k = "MSSQL_SERVER" -> { <<"h">>, <<"h",",","9">> }
          [] k = "MSSQL_DATABASE" -> { <<"d","b">> }
          [] k = "MSSQL_USER" -> { <<"s","a">> }
          [] k = "MSSQL_PASSWORD" -> { <<"p","w">>, <<>> }]

Envs ==
    UNION { { e \in [K -> UNION { EnvValues[k] : k \in K }] :
                \A k \in K : e[k] \in EnvValues[k] } :
            K \in SUBSET DOMAIN EnvValues }

BootInit ==
    /\ connection = None
    /\ sessions = 0
    /\ request = NoRequest
    /\ response = NoResponse
    /\ ops = <<>>
    /\ gquery = <<>>
    /\ gverdict = Pending
    /\ env \in Envs
    /\ config = NoConfig
    /\ pc = "boot"
    /\ logged = <<>>
    /\ tasks = [t \in 1..MaxTasks |-> IdleTask]
    /\ running = NoTask

Startup ==
    /\ pc = "boot"
    /\ pc' = startup(env).pc
    /\ config' = startup(env).config
    /\ logged' = startup(env).log
    /\ UNCHANGED <<connection, sessions, request, response, ops, guardVars, env,
                   concVars>>

BootNext == Startup \/ GetConnection

BootSpec == BootInit /\ [][BootNext]_vars

----------------------------------------------------------------------------
(* Requests dispatched concurrently.  The protocol server starts one       *)
(* coroutine per request on the single event loop of asyncio.run(main());  *)
(* a coroutine keeps the loop until it awaits or returns.  The database    *)
(* section of a handler is get_connection, cursor.execute, fetchall.       *)

Handlers == {"list_resources", "read_resource", "call_tool"}

\* a handler that awaits between its acquire and its execute
AwaitPoints_before_execute == {"execute"}

\* the steps before which a handler awaits: the bodies contain no await
AwaitPoints == {}

\* the loop runs task t next: t has it, or it is free and t is waiting for it
CanRun(t) ==
    \/ running = t
    \/ (running = NoTask /\ tasks[t].pc \in {"ready"} \cup AwaitPoints)

\* task t goes on to step `at`; it gives up the loop if it awaits there or
\* has returned
Proceed(t, handler, at, conn) ==
    /\ tasks' = [tasks EXCEPT ![t] = Task(handler, at, conn)]
    /\ running' = IF at \in {"idle"} \cup AwaitPoints THEN NoTask ELSE t

ConcUnchanged ==
    UNCHANGED <<request, response, ops, guardVars, bootVars, logged>>

\* the protocol server receives a request and creates its coroutine
Dispatch ==
    \E t \in 1..MaxTasks, h \in Handlers :
        /\ tasks[t].pc = "idle"
        /\ tasks' = [tasks EXCEPT ![t] = Task(h, "ready", None)]
        /\ UNCHANGED <<connection, sessions, running>>
        /\ ConcUnchanged

\* the coroutine starts: it returns or raises on its argument checks, or
\* goes on to its database section
Enter ==
    \E t \in 1..MaxTasks, at \in {"idle", "acquire"} :
        /\ tasks[t].pc = "ready"
        /\ CanRun(t)
        /\ Proceed(t, IF at = "idle" THEN "none" ELSE tasks[t].handler, at, None)
        /\ UNCHANGED <<connection, sessions>>
        /\ ConcUnchanged

\* conn = db.get_connection()
TaskAcquire ==
    \E t \in 1..MaxTasks :
        /\ tasks[t].pc = "acquire"
        /\ CanRun(t)
        /\ \E b \in Backends(connection, sessions, {NoOutcome}) :
              LET a == get_connection(connection, sessions, b.probeOk, b.connectOk)
              IN  /\ connection' = a.connection
                  /\ sessions' = a.sessions
                  /\ IF a.raised
                     THEN Proceed(t, "none", "idle", None)
                     ELSE Proceed(t, tasks[t].handler, "execute", a.ret)
        /\ ConcUnchanged

\* cursor.execute(...) on the connection the task acquired
TaskExecute ==
    \E t \in 1..MaxTasks, ok \in BOOLEAN :
        /\ tasks[t].pc = "execute"
        /\ CanRun(t)
        /\ IF ok
           THEN Proceed(t, tasks[t].handler, "fetch", tasks[t].conn)
           ELSE Proceed(t, "none", "idle", None)
        /\ UNCHANGED <<connection, sessions>>
        /\ ConcUnchanged

\* cursor.fetchall(), then the handler returns or raises
TaskFetch ==
    \E t \in 1..MaxTasks :
        /\ tasks[t].pc = "fetch"
        /\ CanRun(t)
        /\ Proceed(t, "none", "idle", None)
        /\ UNCHANGED <<connection, sessions>>
        /\ ConcUnchanged

ConcNext == Dispatch \/ Enter \/ TaskAcquire \/ TaskExecute \/ TaskFetch

ConcSpec == Init /\ [][ConcNext]_vars

----------------------------------------------------------------------------
(* The guard on its own: any query text, classified once *)

GuardInit ==
    /\ connection = None
    /\ sessions = 0
    /\ request = NoRequest
    /\ response = NoResponse
    /\ ops = <<>>
    /\ gquery \in Queries(MaxFrags)
    /\ gverdict = Pending
    /\ env = DefaultEnv
    /\ config = startup(DefaultEnv).config
    /\ pc = startup(DefaultEnv).pc
    /\ logged = startup(DefaultEnv).log
    /\ tasks = [t \in 1..MaxTasks |-> IdleTask]
    /\ running = NoTask

Validate ==
    /\ ~gverdict.done
    /\ gverdict' = [done |-> TRUE, value |-> is_read_only_query(gquery)]
    /\ UNCHANGED <<connection, sessions, request, response, ops, gquery,
                   bootVars, logged, concVars>>

GuardNext == Validate

GuardSpec == GuardInit /\ [][GuardNext]_vars

----------------------------------------------------------------------------
(* Vocabulary of the properties, stated on the text itself *)

DenyList ==
    { <<"I","N","S","E","R","T">>, <<"U","P","D","A","T","E">>,
      <<"D","E","L","E","T","E">>, <<"D","R","O","P">>,
      <<"C","R","E","A","T","E">>, <<"A","L","T","E","R">>,
      <<"T","R","U","N","C","A","T","E">>, <<"M","E","R","G","E">>,
      <<"U","P","S","E","R","T">>, <<"R","E","P","L","A","C","E">>,
      <<"G","R","A","N","T">>, <<"R","E","V","O","K","E">>,
      <<"E","X","E","C">>, <<"E","X","E","C","U","T","E">> }

K_WITH == <<"W","I","T","H">>
K_DECLARE == <<"D","E","C","L","A","R","E">>

IsSpace(c) == c = " " \/ c = "\t"

IsWordChar(c) == ~IsSpace(c) /\ c \notin {";", ",", "(", ")", "*", "="}

\* the keyword kw, in any letter case, stands at position i of q
KeywordAt(q, i, kw) ==
    /\ i >= 1
    /\ i + Len(kw) - 1 <= Len(q)
    /\ \A j \in 1..Len(kw) : UpperChar(q[i + j - 1]) = kw[j]

\* position of the first character that is not whitespace
FirstText(q) ==
    IF \A i \in 1..Len(q) : IsSpace(q[i]) THEN Len(q) + 1
    ELSE CHOOSE i \in 1..Len(q) :
            ~IsSpace(q[i]) /\ \A j \in 1..(i - 1) : IsSpace(q[j])

LeadsWith(q, kw) == KeywordAt(q, FirstText(q), kw)

HasDenyToken(q) ==
    \E kw \in DenyList : \E i \in 1..Len(q) :
        /\ KeywordAt(q, i, kw)
        /\ (i = 1 \/ ~IsWordChar(q[i - 1]))
        /\ (i + Len(kw) > Len(q) \/ ~IsWordChar(q[i + Len(kw)]))

IsStacked(q) ==
    \E i \in 1..Len(q) :
        q[i] = ";" /\ \E j \in (i + 1)..Len(q) : ~IsSpace(q[j])

\* "SELECT " followed by a non-empty expression, whitespace around it
IsSelectExpression(q) ==
    LET i == FirstText(q)
    IN  /\ KeywordAt(q, i, K_SELECT)
        /\ i + 6 <= Len(q)
        /\ q[i + 6] = " "
        /\ \E j \in (i + 7)..Len(q) : ~IsSpace(q[j])

HasUriPrefix(uri) ==
    /\ Len(uri) >= 8
    /\ \A i \in 1..8 : uri[i] = UriPrefix[i]

Min(a, b) == IF a < b THEN a ELSE b

----------------------------------------------------------------------------
(* Properties of the guard, under GuardSpec *)

\* C1: every query text that contains a deny-listed keyword as a token is
\* classified as rejected, whatever keyword it starts with.
C1_DenyListedRejected ==
    (gverdict.done /\ HasDenyToken(gquery)) => ~gverdict.value

\* C2: every query text that, trimmed and ignoring case, starts with none of
\* SELECT, WITH, DECLARE is classified as rejected.
C2_OtherLeadRejected ==
    ( /\ gverdict.done
      /\ ~LeadsWith(gquery, K_SELECT)
      /\ ~LeadsWith(gquery, K_WITH)
      /\ ~LeadsWith(gquery, K_DECLARE) ) => ~gverdict.value

C2_Witness ==
    /\ gverdict.done
    /\ ~gverdict.value
    /\ gquery = <<"1">> \o K_SELECT

\* C3: every query text "SELECT " + expression, in any letter case and with
\* whitespace around it, that has no deny-listed token and no stacked
\* statement is classified as admitted.
C3_SelectAdmitted ==
    ( /\ gverdict.done
      /\ IsSelectExpression(gquery)
      /\ ~HasDenyToken(gquery)
      /\ ~IsStacked(gquery) ) => gverdict.value

C3_Witness ==
    /\ gverdict.done
    /\ gverdict.value
    /\ gquery = <<"\t", "s","e","L","e","c","t", " ", "1">>

----------------------------------------------------------------------------
(* Properties of the connection manager and the handlers, under Spec *)

IsToolCall ==
    /\ request.handler = "call_tool"
    /\ request.name = "execute_sql"
    /\ request.arguments.present
    /\ request.arguments.query # <<>>

\* the backend failed the connect, the execute or the fetch of this request
ConnectFailed == ~request.backend.connectOk

ExecuteFailed == request.backend.connectOk /\ ~request.backend.out.execute

FetchFailed ==
    /\ request.backend.connectOk
    /\ request.backend.out.execute
    /\ request.backend.out.has_description
    /\ ~request.backend.out.fetch

BackendMessage ==
    IF ConnectFailed THEN MsgConnect
    ELSE IF ExecuteFailed THEN MsgExecute ELSE MsgFetch

\* C4: a call of execute_sql with a non-empty query returns normally; when
\* the guard rejects the query, the connection cannot be acquired, or the
\* execute or the fetch fails, the text returned begins with "Error:"; and
\* a further request can be served afterwards.
C4_ToolCallNeverRaises ==
    IsToolCall =>
        /\ response.kind = "return"
        /\ ( \/ ~LeadsWith(request.arguments.query, K_SELECT)
             \/ ConnectFailed \/ ExecuteFailed \/ FetchFailed )
           => (Len(response.text) >= 1 /\ response.text[1] = "Error: ")
        /\ ENABLED Next

C4_Witness ==
    /\ IsToolCall
    /\ LeadsWith(request.arguments.query, K_SELECT)
    /\ FetchFailed
    /\ response.kind = "return"
    /\ response.text = <<"Error: ", MsgFetch>>

\* C5: serving one request probes at most once and connects at most once;
\* a failed probe is followed by exactly one connect attempt in the same
\* acquire, and when that attempt fails too the acquire raises the
\* connection error and holds nothing.
C5_OneReconnect ==
    /\ Count(ops, "probe") <= 1
    /\ Count(ops, "connect") <= 1
    /\ ~request.backend.probeOk =>
          (Count(ops, "probe") = 1 /\ Count(ops, "connect") = 1)
    /\ ( /\ request.handler = "get_connection"
         /\ ~request.backend.probeOk
         /\ ~request.backend.connectOk ) =>
          /\ response.kind = "raise"
          /\ response.text = <<MsgConnect>>
          /\ connection = None

C5_Witness ==
    /\ request.handler = "get_connection"
    /\ ~request.backend.probeOk
    /\ ~request.backend.connectOk
    /\ Kinds(ops) = <<"probe", "connect">>
    /\ response.kind = "raise"

\* C6: an acquire made while a connection is held, with a backend that does
\* not fail, returns the session that was held, after exactly one probe and
\* no connect.
C6_ReuseHeldSession ==
    [][ ( /\ connection # None
          /\ request'.handler = "get_connection"
          /\ request'.backend.probeOk ) =>
            /\ response'.kind = "return"
            /\ response'.conn = connection
            /\ connection' = connection
            /\ Kinds(ops') = <<"probe">> ]_vars

C6_Witness ==
    /\ request.handler = "get_connection"
    /\ request.backend.probeOk
    /\ Kinds(ops) = <<"probe">>
    /\ response.kind = "return"
    /\ response.conn = connection
    /\ connection # None

\* C7: reading a resource whose identifier lacks the prefix "mssql://"
\* raises an invalid-argument error without consulting the guard or the
\* backend; with the prefix, a failed acquire, execute or fetch raises an
\* execution error that carries the backend's message.
C7_ReadResourceRaises ==
    request.handler = "read_resource" =>
        /\ ~HasUriPrefix(request.uri) =>
              /\ response.kind = "raise"
              /\ response.exc = "ValueError"
              /\ ops = <<>>
        /\ ( /\ HasUriPrefix(request.uri)
             /\ (ConnectFailed \/ ExecuteFailed \/ FetchFailed) ) =>
              /\ response.kind = "raise"
              /\ response.exc = "RuntimeError"
              /\ response.text = <<"Database error: ", BackendMessage>>

C7_Witness ==
    /\ request.handler = "read_resource"
    /\ HasUriPrefix(request.uri)
    /\ ExecuteFailed
    /\ response.kind = "raise"
    /\ response.exc = "RuntimeError"
    /\ response.text = <<"Database error: ", MsgExecute>>

\* C8: listing the resources always returns: the empty sequence when the
\* acquire, the schema query or the construction of the descriptors fails,
\* and otherwise one descriptor per table row, in order, with identifier
\* "mssql://{table}/data".
C8_ListNeverRaises ==
    request.handler = "list_resources" =>
        LET out == request.backend.out
            failed == \/ ConnectFailed \/ ExecuteFailed \/ FetchFailed
                      \/ ~out.build
        IN  /\ response.kind = "return"
            /\ failed => response.resources = <<>>
            /\ ~failed =>
                  /\ Len(response.resources) = Len(out.rows)
                  /\ \A i \in 1..Len(out.rows) :
                        response.resources[i].uri =
                            <<"mssql://", out.rows[i][1], "/data">>

C8_Witness ==
    /\ request.handler = "list_resources"
    /\ ~request.backend.probeOk
    /\ ConnectFailed
    /\ response.kind = "return"
    /\ response.resources = <<>>

\* C9: a tool call whose name is not execute_sql, or whose query is absent
\* or empty, raises an invalid-argument error, and neither the guard nor the
\* backend has been consulted.
C9_InvalidArguments ==
    ( /\ request.handler = "call_tool"
      /\ \/ request.name # "execute_sql"
         \/ ~request.arguments.present
         \/ request.arguments.query = <<>> ) =>
        /\ response.kind = "raise"
        /\ response.exc = "ValueError"
        /\ ops = <<>>

C9_Witness ==
    /\ request.handler = "call_tool"
    /\ request.name = "execute_sql"
    /\ request.arguments.present
    /\ request.arguments.query = <<>>
    /\ response.kind = "raise"
    /\ connection # None

----------------------------------------------------------------------------
(* Properties of startup and logging, under BootSpec *)

\* the text holds the piece as a contiguous run of characters
Contains(text, piece) ==
    \E i \in 1..Len(text) :
        /\ i + Len(piece) - 1 <= Len(text)
        /\ SubSeq(text, i, i + Len(piece) - 1) = piece

ConfiguredPassword == environ_get(env, "MSSQL_PASSWORD", <<>>)

\* C11: no logged record, of startup or of a connect attempt, contains the
\* configured password in plaintext.
C11_NoPlaintextPassword ==
    ConfiguredPassword # <<>> =>
        \A i \in 1..Len(logged) : ~Contains(logged[i].text, ConfiguredPassword)

RequiredKeys == {"MSSQL_SERVER", "MSSQL_DATABASE", "MSSQL_USER", "MSSQL_PASSWORD"}

\* C12: with a required configuration value missing, startup completes
\* (the process serves), and an acquire is what fails.
C12_StartupCompletes ==
    (pc # "boot" /\ \E k \in RequiredKeys : k \notin DOMAIN env) =>
        pc = "serving"

----------------------------------------------------------------------------
(* Further properties of the connection manager and the handlers, under    *)
(* Spec.  Those that compare the state before and after a request are      *)
(* properties of the step.                                                 *)

Acquires(served) == Count(served, "probe") + Count(served, "connect") > 0

\* the probe of this request was made and failed
ProbeFailedIn(req, served) ==
    Count(served, "probe") = 1 /\ ~req.backend.probeOk

\* the statement of a tool call or resource read was run and its execute or
\* its fetch failed
StatementFailedIn(req, served) ==
    /\ req.handler \in {"call_tool", "read_resource"}
    /\ Count(served, "execute") = 1
    /\ \/ ~req.backend.out.execute
       \/ (req.backend.out.has_description /\ ~req.backend.out.fetch)

\* C13: the manager starts without a connection; a request that does not
\* acquire leaves it alone; a connect is attempted at most once per request
\* and only when nothing is held or the probe of the held one just failed;
\* what is held afterwards is nothing, the same session, or the one session
\* just opened.
C13_SingleLazyConnection ==
    /\ connection = None /\ sessions = 0
    /\ [][ /\ ~Acquires(ops') => (connection' = connection /\ sessions' = sessions)
           /\ Count(ops', "connect") <= 1
           /\ (Count(ops', "connect") = 1 \/ sessions' # sessions) =>
                 (connection = None \/ ProbeFailedIn(request', ops'))
           /\ sessions' \in {sessions, sessions + 1}
           /\ connection' \in {None, connection, sessions'}
           /\ connection' # connection => Count(ops', "connect") = 1 ]_vars

C13_Witness ==
    /\ request.handler = "list_resources"
    /\ Len(ops) >= 2
    /\ SubSeq(Kinds(ops), 1, 2) = <<"probe", "connect">>
    /\ sessions = 2
    /\ connection = 2

\* C14 as stated: once the probe fails, or the statement of a tool call or
\* resource read fails, the session that was held is no longer held.
C14_FailureDropsConnection ==
    [][ ( /\ connection # None
          /\ (ProbeFailedIn(request', ops') \/ StatementFailedIn(request', ops')) )
        => connection' # connection ]_vars

\* C14 as amended: a failed probe drops the held session and one connect
\* follows in the same acquire (a new session is held if it succeeds, none
\* if it fails); a failed statement leaves the held session in place, and a
\* held session is replaced only after a failed probe.
C14_ProbeFailureDropsConnection ==
    [][ connection # None =>
          /\ ProbeFailedIn(request', ops') =>
                /\ connection' # connection
                /\ Count(ops', "connect") = 1
                /\ request'.backend.connectOk =>
                      (connection' = sessions' /\ sessions' = sessions + 1)
                /\ ~request'.backend.connectOk => connection' = None
          /\ (StatementFailedIn(request', ops') /\ ~ProbeFailedIn(request', ops'))
                => connection' = connection
          /\ connection' # connection => ProbeFailedIn(request', ops') ]_vars

C14_Witness ==
    /\ request.handler = "call_tool"
    /\ Kinds(ops) = <<"guard", "probe", "execute">>
    /\ request.backend.probeOk
    /\ ~request.backend.out.execute
    /\ connection # None

\* C15: when the statement of a tool call or resource read executes but has
\* no result set, the handler returns normally, without an error payload
\* and with no rows.
C15_NoResultSetIsEmpty ==
    ( /\ request.handler \in {"call_tool", "read_resource"}
      /\ Count(ops, "execute") = 1
      /\ request.backend.out.execute
      /\ ~request.backend.out.has_description ) =>
        /\ response.kind = "return"
        /\ response.rows = <<>>
        /\ (response.text = <<>> \/ response.text[1] # "Error: ")

\* C18: in a tool call, every statement executed carries the caller's text
\* unchanged and comes after the guard saw that text and admitted it; a
\* rejected query is followed by no backend operation and leaves the
\* connection as it was.
C18_GuardBeforeBackend ==
    [][ request'.handler = "call_tool" =>
          LET query == request'.arguments.query
          IN  /\ \A i \in 1..Len(ops') :
                    ops'[i].op \in {"probe", "connect", "execute", "fetch"} =>
                        /\ ops'[1] = Op("guard", query)
                        /\ LeadsWith(query, K_SELECT)
                        /\ ops'[i].op = "execute" => ops'[i].sql = query
              /\ ( /\ request'.name = "execute_sql"
                   /\ request'.arguments.present
                   /\ query # <<>>
                   /\ ~LeadsWith(query, K_SELECT) ) =>
                    /\ Kinds(ops') = <<"guard">>
                    /\ connection' = connection
                    /\ sessions' = sessions ]_vars

C18_Witness ==
    /\ request.handler = "call_tool"
    /\ request.arguments.query = <<" ","s","e","L","e","c","t"," ","1","\t">>
    /\ Len(ops) >= 3
    /\ ops[1] = Op("guard", request.arguments.query)
    /\ ops[3] = Op("execute", request.arguments.query)

\* C20: an acquire that returns hands out the session the manager holds,
\* which it either probed successfully (the session held before) or has
\* just opened, never one whose probe failed; an acquire that raises leaves
\* nothing held; and an acquire that finds nothing held connects without
\* probing.
C20_AcquireOutcome ==
    [][ request'.handler = "get_connection" =>
          /\ response'.kind \in {"return", "raise"}
          /\ response'.kind = "return" =>
                /\ response'.conn = connection'
                /\ connection' # None
                /\ \/ /\ Kinds(ops') = <<"probe">>
                      /\ request'.backend.probeOk
                      /\ connection' = connection
                   \/ /\ ops'[Len(ops')].op = "connect"
                      /\ request'.backend.connectOk
                      /\ connection' = sessions'
                      /\ sessions' = sessions + 1
          /\ ProbeFailedIn(request', ops') => response'.conn # connection
          /\ response'.kind = "raise" => connection' = None
          /\ connection = None => Kinds(ops') = <<"connect">> ]_vars

C20_Witness ==
    /\ request.handler = "get_connection"
    /\ Kinds(ops) = <<"connect">>
    /\ response.kind = "return"
    /\ response.conn = 2
    /\ connection = 2

----------------------------------------------------------------------------
(* Further properties of the guard, under GuardSpec *)

\* C16: every query text with a statement separator followed by further
\* text is classified as rejected.
C16_StackedRejected ==
    (gverdict.done /\ IsStacked(gquery)) => ~gverdict.value

\* C17 as stated: every query text that starts with WITH or DECLARE and has
\* no deny-listed token and no stacked statement is classified as admitted.
C17_WithDeclareAdmitted ==
    ( /\ gverdict.done
      /\ (LeadsWith(gquery, K_WITH) \/ LeadsWith(gquery, K_DECLARE))
      /\ ~HasDenyToken(gquery)
      /\ ~IsStacked(gquery) ) => gverdict.value

\* C17 as amended: every query text that starts with WITH or DECLARE is
\* classified as rejected; the only admitted leading keyword is SELECT.
C17_WithDeclareRejected ==
    ( /\ gverdict.done
      /\ (LeadsWith(gquery, K_WITH) \/ LeadsWith(gquery, K_DECLARE)) )
        => ~gverdict.value

C17_Witness ==
    /\ gverdict.done
    /\ ~gverdict.value
    /\ gquery = <<"d","e","c","l","a","r","e"," ","1">>

----------------------------------------------------------------------------
(* Property of concurrently dispatched requests, under ConcSpec *)

InDatabaseSection(t) == tasks[t].pc \in {"acquire", "execute", "fetch"}

\* C19: however the dispatched requests interleave, at most one handler is
\* inside its database section (so at most one probe, connect, execute or
\* fetch is in flight), and the connection a handler acquired is still the
\* held one until its execute and fetch are over.
C19_OneOperationInFlight ==
    /\ Cardinality({ t \in 1..MaxTasks : InDatabaseSection(t) }) <= 1
    /\ \A t \in 1..MaxTasks :
          tasks[t].pc \in {"execute", "fetch"} => tasks[t].conn = connection

C19_Witness ==
    /\ tasks[1].pc = "fetch"
    /\ tasks[1].conn = connection
    /\ connection = 2
    /\ tasks[2].pc = "ready"

====
